---- MODULE Spec2Model ----
(***************************************************************************)
(* Model of the Tempest back-end of cloudbase-init-ci (argus):             *)
(*   argus/backends/tempest/tempest_backend.py  BaseTempestBackend         *)
(* The back-end object holds the record of the resources it created        *)
(* (_server, _keypair, _security_group, _security_groups_rules,            *)
(* _floating_ip); setup_instance() and cleanup() are sequences of blocking *)
(* cloud calls, each of which may raise.  Every cloud call is one step of  *)
(* the model; pc is the position inside the running method.                *)
(***************************************************************************)
EXTENDS Integers, Sequences, FiniteSets, TLC

\* ---------------------------------------------------------------- bounds
\* Number of setup_instance()/cleanup() invocations in one behaviour.
MaxOps == 3

\* Number of static-network setup_instance() invocations in one behaviour.
MaxNetSetups == 1

\* Length of the list of networks the cloud returns.
MaxNets == 4

\* Length of the list of ports the cloud returns.
MaxPorts == 3

\* ------------------------------------------------------------- constants
\* None
Nil == 0

\* The tenant of the primary credentials and its isolated network.
TenantId == "tenant"
IsolatedNetwork == "primary"

\* (variant: the ping rule set is missing)
RULESETSNoPing ==
    << [ip_protocol |-> "tcp",  from_port |-> 3389, to_port |-> 3389, cidr |-> "0.0.0.0/0"],
       [ip_protocol |-> "tcp",  from_port |-> 5985, to_port |-> 5985, cidr |-> "0.0.0.0/0"],
       [ip_protocol |-> "tcp",  from_port |-> 5986, to_port |-> 5986, cidr |-> "0.0.0.0/0"],
       [ip_protocol |-> "tcp",  from_port |-> 22,   to_port |-> 22,   cidr |-> "0.0.0.0/0"] >>

\* The rule sets of _add_security_group_exceptions, in source order.
RULESETS ==
    << [ip_protocol |-> "tcp",  from_port |-> 3389, to_port |-> 3389, cidr |-> "0.0.0.0/0"],
       [ip_protocol |-> "tcp",  from_port |-> 5985, to_port |-> 5985, cidr |-> "0.0.0.0/0"],
       [ip_protocol |-> "tcp",  from_port |-> 5986, to_port |-> 5986, cidr |-> "0.0.0.0/0"],
       [ip_protocol |-> "tcp",  from_port |-> 22,   to_port |-> 22,   cidr |-> "0.0.0.0/0"],
       [ip_protocol |-> "icmp", from_port |-> -1,   to_port |-> -1,   cidr |-> "0.0.0.0/0"] >>

VARIABLES
    server,                 \* self._server (id of the server, or Nil)
    keypair,                \* self._keypair
    security_group,         \* self._security_group
    security_groups_rules,  \* self._security_groups_rules (list of rule ids)
    floating_ip,            \* self._floating_ip
    creds,                  \* the manager holds tenant-isolation credentials
    cloud,                  \* resources existing in the cloud, per kind
    status,                 \* status of every server existing in the cloud
    nextId,                 \* next fresh resource identifier
    log,                    \* every cloud call issued so far, in order
    h,                      \* the methods invoked so far, in order
    pc,                     \* position inside the running method
    result,                 \* "none" | "running" | "returned" | "raised"
    loc,                    \* locals of the running method
    nilDeref,               \* internal_instance_id() was called with _server None
    networks,               \* self._networks (the attach list; << >> for None)
    net,                    \* the tenant's networks as the cloud holds them
    fn                      \* argument and result of a function under study

record == <<server, keypair, security_group, security_groups_rules, floating_ip>>
vars == <<server, keypair, security_group, security_groups_rules, floating_ip,
          creds, cloud, status, nextId, log, h, pc, result, loc, nilDeref,
          networks, net, fn>>

\* What the methods of BaseTempestBackend leave alone.
ext == <<networks, net, fn>>

NoLocals == [server |-> Nil, floating_ip |-> Nil, secgroup |-> Nil, i |-> 1]

\* No function is under study.
NoFn == [arg |-> Nil, res |-> Nil, done |-> FALSE]

\* The tenant's networks before any instance is set up: no network bundle
\* exists (created) and none is registered with the credentials (tracked).
\* The backend is a BaseTempestBackend (static is false) or a
\* NetworkWindowsBackend (static is true).
NoNet == [static |-> FALSE, dynamic |-> TRUE, created |-> {}, tracked |-> {},
          dhcp |-> TRUE, pools0 |-> << >>, pools |-> << >>, subnet6 |-> {},
          listing |-> [unlisted |-> TRUE]]

\* BaseTempestBackend.__init__
InitBackend ==
    /\ server = Nil
    /\ keypair = Nil
    /\ security_group = Nil
    /\ security_groups_rules = << >>
    /\ floating_ip = Nil
    /\ creds = FALSE
    /\ cloud = [keypairs |-> {}, floating_ips |-> {}, secgroups |-> {}, rules |-> {},
                rulesets |-> << >>, attached |-> << >>]
    /\ status = << >>
    /\ nextId = 1
    /\ log = << >>
    /\ h = << >>
    /\ pc = "idle"
    /\ result = "none"
    /\ loc = NoLocals
    /\ nilDeref = FALSE
    /\ networks = << >>

Init ==
    /\ InitBackend
    /\ net = NoNet
    /\ fn = NoFn

\* ------------------------------------------------------------- helpers
Servers == DOMAIN status

\* One cloud call: operation, the resource it is about, whether it returned.
Call(op, id, ok) == [op |-> op, id |-> id, ok |-> ok, run |-> Len(h)]

Logged(op, id, ok) == log' = Append(log, Call(op, id, ok))

\* The method returns normally.
Return ==
    /\ pc' = "idle"
    /\ result' = "returned"
    /\ loc' = NoLocals

\* The statement that follows statement p in a method body whose statements
\* are listed in steps; the method returns after the last one.
Advance(steps, p) ==
    LET k == CHOOSE i \in 1..Len(steps) : steps[i] = p
    IN  IF k = Len(steps)
          THEN Return
          ELSE /\ pc' = steps[k + 1]
               /\ result' = result
               /\ loc' = NoLocals

\* (variant: the exception handler forgets the keypair)
RaiseWithRollback ==
    /\ pc' = "idle"
    /\ result' = "raised"
    /\ loc' = NoLocals
    /\ UNCHANGED <<server, security_group, security_groups_rules, floating_ip>>
    /\ keypair' = Nil

\* An exception leaves the running method: nothing is caught, nothing is
\* undone, the fields keep the values assigned so far.
Raise ==
    /\ pc' = "idle"
    /\ result' = "raised"
    /\ loc' = NoLocals
    /\ UNCHANGED record

\* ------------------------------------------------- setup_instance()
\* The order of the cloud calls of setup_instance(), one entry per call.
SetupOrder ==
    << "update_subnet", "create_keypair", "create_server", "wait_active",
       "create_floating_ip", "associate_floating_ip", "create_security_group",
       "create_security_group_rule", "create_security_group_rule",
       "create_security_group_rule", "create_security_group_rule",
       "create_security_group_rule", "add_security_group" >>

\* The statements of setup_instance(), in source order.
SetupStepsServerFirst ==
    << "configure_networking", "create_server", "create_keypair",
       "create_floating_ip", "create_security_group" >>

SetupSteps ==
    << "configure_networking", "create_keypair", "create_server",
       "create_floating_ip", "create_security_group" >>

\* A caller invokes setup_instance(), which NetworkWindowsBackend overrides.
SetupInstance ==
    /\ pc = "idle"
    /\ ~net.static
    /\ Len(h) < MaxOps
    /\ h' = Append(h, "setup")
    /\ pc' = SetupSteps[1]
    /\ result' = "running"
    /\ loc' = NoLocals
    /\ UNCHANGED <<record, creds, cloud, status, nextId, log, nilDeref>>
    /\ UNCHANGED ext

\* _configure_networking: primary_credentials() hands out the tenant's
\* credentials, then the DNS servers of its subnet are updated.
ConfigureNetworking ==
    /\ pc = "configure_networking"
    /\ creds' = TRUE
    /\ \E ok \in BOOLEAN :
         /\ Logged("update_subnet", Nil, ok)
         /\ IF ok
              THEN /\ Advance(SetupSteps, "configure_networking")
                   /\ UNCHANGED record
              ELSE Raise
    /\ UNCHANGED <<cloud, status, nextId, h, nilDeref>>
    /\ UNCHANGED ext

\* self._keypair = self._manager.create_keypair(...)
CreateKeypair ==
    /\ pc = "create_keypair"
    /\ \E ok \in BOOLEAN :
         IF ok
           THEN /\ Logged("create_keypair", nextId, TRUE)
                /\ cloud' = [cloud EXCEPT !.keypairs = @ \cup {nextId}]
                /\ keypair' = nextId
                /\ nextId' = nextId + 1
                /\ Advance(SetupSteps, "create_keypair")
                /\ UNCHANGED <<server, security_group, security_groups_rules,
                               floating_ip>>
           ELSE /\ Logged("create_keypair", Nil, FALSE)
                /\ Raise
                /\ UNCHANGED <<cloud, nextId>>
    /\ UNCHANGED <<creds, status, h, nilDeref>>
    /\ UNCHANGED ext

\* networks=self._networks or ([{"uuid": self.__get_id_tenant_network}])
AttachListAlwaysPrimary(nets) == << [uuid |-> IsolatedNetwork] >>

AttachList(nets) == IF nets # << >> THEN nets ELSE << [uuid |-> IsolatedNetwork] >>

\* _create_server: servers_client.create_server(...); the list of networks
\* is never empty, so it stays among the keyword arguments, and the cloud
\* attaches the new server to the networks of the request.
CreateServer ==
    /\ pc = "create_server"
    /\ \E ok \in BOOLEAN :
         IF ok
           THEN /\ Logged("create_server", nextId, TRUE)
                /\ status' = (nextId :> "BUILD") @@ status
                /\ cloud' = [cloud EXCEPT
                               !.attached = (nextId :> AttachList(networks)) @@ @]
                /\ loc' = [loc EXCEPT !.server = nextId]
                /\ nextId' = nextId + 1
                /\ pc' = "wait_active"
                /\ UNCHANGED <<record, result>>
           ELSE /\ Logged("create_server", Nil, FALSE)
                /\ Raise
                /\ UNCHANGED <<status, cloud, nextId>>
    /\ UNCHANGED <<creds, h, nilDeref>>
    /\ UNCHANGED ext

\* (variant: a failed wait is swallowed and the setup goes on without a
\* server)
WaitActiveSwallowing ==
    /\ pc = "wait_active"
    /\ \E ok \in BOOLEAN :
         /\ Logged("wait_active", loc.server, ok)
         /\ IF ok
              THEN /\ status' = [status EXCEPT ![loc.server] = "ACTIVE"]
                   /\ server' = loc.server
                   /\ Advance(SetupSteps, "create_server")
                   /\ UNCHANGED <<keypair, security_group, security_groups_rules,
                                  floating_ip>>
              ELSE /\ \E st \in {"BUILD", "ERROR"} :
                        status' = [status EXCEPT ![loc.server] = st]
                   /\ Advance(SetupSteps, "create_server")
                   /\ UNCHANGED record
    /\ UNCHANGED <<creds, cloud, nextId, h, nilDeref>>
    /\ UNCHANGED ext

\* _create_server: waiters.wait_for_server_status(..., 'ACTIVE'); the
\* result of _create_server is assigned to self._server only when the wait
\* returns.
WaitActive ==
    /\ pc = "wait_active"
    /\ \E ok \in BOOLEAN :
         /\ Logged("wait_active", loc.server, ok)
         /\ IF ok
              THEN /\ status' = [status EXCEPT ![loc.server] = "ACTIVE"]
                   /\ server' = loc.server
                   /\ Advance(SetupSteps, "create_server")
                   /\ UNCHANGED <<keypair, security_group, security_groups_rules,
                                  floating_ip>>
              ELSE /\ \E st \in {"BUILD", "ERROR"} :
                        status' = [status EXCEPT ![loc.server] = st]
                   /\ Raise
    /\ UNCHANGED <<creds, cloud, nextId, h, nilDeref>>
    /\ UNCHANGED ext

\* _assign_floating_ip: floating_ips_client.create_floating_ip()
CreateFloatingIp ==
    /\ pc = "create_floating_ip"
    /\ \E ok \in BOOLEAN :
         IF ok
           THEN /\ Logged("create_floating_ip", nextId, TRUE)
                /\ cloud' = [cloud EXCEPT !.floating_ips = @ \cup {nextId}]
                /\ loc' = [loc EXCEPT !.floating_ip = nextId]
                /\ nextId' = nextId + 1
                /\ pc' = "associate_floating_ip"
                /\ UNCHANGED <<record, result>>
           ELSE /\ Logged("create_floating_ip", Nil, FALSE)
                /\ Raise
                /\ UNCHANGED <<cloud, nextId>>
    /\ UNCHANGED <<creds, status, h, nilDeref>>
    /\ UNCHANGED ext

\* _assign_floating_ip: associate_floating_ip_to_server(ip,
\* self.internal_instance_id()); the floating IP is assigned to
\* self._floating_ip only when the association returns.
AssociateFloatingIp ==
    /\ pc = "associate_floating_ip"
    /\ IF server = Nil
         THEN /\ nilDeref' = TRUE
              /\ Raise
              /\ UNCHANGED log
         ELSE /\ \E ok \in BOOLEAN :
                   /\ Logged("associate_floating_ip", loc.floating_ip, ok)
                   /\ IF ok
                        THEN /\ floating_ip' = loc.floating_ip
                             /\ Advance(SetupSteps, "create_floating_ip")
                             /\ UNCHANGED <<server, keypair, security_group,
                                            security_groups_rules>>
                        ELSE Raise
              /\ UNCHANGED nilDeref
    /\ UNCHANGED <<creds, cloud, status, nextId, h>>
    /\ UNCHANGED ext

\* _create_security_groups: security_groups_client.create_security_group(...)
CreateSecurityGroup ==
    /\ pc = "create_security_group"
    /\ \E ok \in BOOLEAN :
         IF ok
           THEN /\ Logged("create_security_group", nextId, TRUE)
                /\ cloud' = [cloud EXCEPT !.secgroups = @ \cup {nextId}]
                /\ loc' = [loc EXCEPT !.secgroup = nextId, !.i = 1]
                /\ nextId' = nextId + 1
                /\ pc' = "create_security_group_rule"
                /\ UNCHANGED <<record, result>>
           ELSE /\ Logged("create_security_group", Nil, FALSE)
                /\ Raise
                /\ UNCHANGED <<cloud, nextId>>
    /\ UNCHANGED <<creds, status, h, nilDeref>>
    /\ UNCHANGED ext

\* The request of create_security_group_rule for rule set i of group g:
\* parent_group_id=secgroup_id, **ruleset.
RuleRequest(g, i) == [parent_group_id |-> g, ruleset |-> RULESETS[i]]

\* (variant: the ids are collected first and stored when all rules exist, so
\* a failure discards the ids collected so far)
CreateSecurityGroupRuleBatch ==
    /\ pc = "create_security_group_rule"
    /\ \E ok \in BOOLEAN :
         IF ok
           THEN /\ Logged("create_security_group_rule", nextId, TRUE)
                /\ cloud' = [cloud EXCEPT
                               !.rules = @ \cup {nextId},
                               !.rulesets = (nextId :> RuleRequest(loc.secgroup, loc.i)) @@ @]
                /\ security_groups_rules' = Append(security_groups_rules, nextId)
                /\ nextId' = nextId + 1
                /\ loc' = [loc EXCEPT !.i = @ + 1]
                /\ pc' = IF loc.i < Len(RULESETS)
                           THEN "create_security_group_rule"
                           ELSE "add_security_group"
                /\ UNCHANGED <<server, keypair, security_group, floating_ip, result>>
           ELSE /\ Logged("create_security_group_rule", Nil, FALSE)
                /\ pc' = "idle"
                /\ result' = "raised"
                /\ loc' = NoLocals
                /\ security_groups_rules' =
                     SubSeq(security_groups_rules, 1,
                            Len(security_groups_rules) - (loc.i - 1))
                /\ UNCHANGED <<server, keypair, security_group, floating_ip>>
                /\ UNCHANGED <<cloud, nextId>>
    /\ UNCHANGED <<creds, status, h, nilDeref>>
    /\ UNCHANGED ext

\* _add_security_group_exceptions yields the rule of rule set loc.i, and
\* _create_security_groups appends its id to self._security_groups_rules.
CreateSecurityGroupRule ==
    /\ pc = "create_security_group_rule"
    /\ \E ok \in BOOLEAN :
         IF ok
           THEN /\ Logged("create_security_group_rule", nextId, TRUE)
                /\ cloud' = [cloud EXCEPT
                               !.rules = @ \cup {nextId},
                               !.rulesets = (nextId :> RuleRequest(loc.secgroup, loc.i)) @@ @]
                /\ security_groups_rules' = Append(security_groups_rules, nextId)
                /\ nextId' = nextId + 1
                /\ loc' = [loc EXCEPT !.i = @ + 1]
                /\ pc' = IF loc.i < Len(RULESETS)
                           THEN "create_security_group_rule"
                           ELSE "add_security_group"
                /\ UNCHANGED <<server, keypair, security_group, floating_ip, result>>
           ELSE /\ Logged("create_security_group_rule", Nil, FALSE)
                /\ Raise
                /\ UNCHANGED <<cloud, nextId>>
    /\ UNCHANGED <<creds, status, h, nilDeref>>
    /\ UNCHANGED ext

\* _create_security_groups: servers_client.add_security_group(
\* server_id=self.internal_instance_id(), ...); the group is assigned to
\* self._security_group when _create_security_groups returns.
AddSecurityGroup ==
    /\ pc = "add_security_group"
    /\ IF server = Nil
         THEN /\ nilDeref' = TRUE
              /\ Raise
              /\ UNCHANGED log
         ELSE /\ \E ok \in BOOLEAN :
                   /\ Logged("add_security_group", loc.secgroup, ok)
                   /\ IF ok
                        THEN /\ security_group' = loc.secgroup
                             /\ Advance(SetupSteps, "create_security_group")
                             /\ UNCHANGED <<server, keypair, security_groups_rules,
                                            floating_ip>>
                        ELSE Raise
              /\ UNCHANGED nilDeref
    /\ UNCHANGED <<creds, cloud, status, nextId, h>>
    /\ UNCHANGED ext

\* ------------------------------------------------------- cleanup()
\* A call that deletes (or detaches) a resource can only return when the
\* resource exists; it can always raise.
Outcomes(exists) == IF exists THEN BOOLEAN ELSE {FALSE}

\* The guards of cleanup(): Python truth of the fields (the variants are
\* a guard that was left out).
HasRules == security_groups_rules # << >>

HasSecurityGroup == security_group # Nil

HasServerAlways == TRUE
HasServer == server # Nil

HasFloatingIpAlways == TRUE
HasFloatingIp == floating_ip # Nil

HasKeypair == keypair # Nil

\* APIManager.cleanup_credentials releases the credentials acquired for the
\* run; with none acquired there is nothing to release.
CredentialsAcquired == creds

\* Releasing the credentials deletes the network, subnet and router of every
\* registered bundle and empties the registry.
ReleaseCredentials(n) == [n EXCEPT !.created = @ \ n.tracked, !.tracked = {}]

\* The statements of cleanup(), in source order.
CleanupStepsExactReverse ==
    << "cleanup_rules", "cleanup_security_group", "cleanup_floating_ip",
       "cleanup_server", "cleanup_keypair", "cleanup_credentials" >>

CleanupSteps ==
    << "cleanup_rules", "cleanup_security_group", "cleanup_server",
       "cleanup_floating_ip", "cleanup_keypair", "cleanup_credentials" >>

\* A caller invokes cleanup().
Cleanup ==
    /\ pc = "idle"
    /\ Len(h) < MaxOps
    /\ h' = Append(h, "cleanup")
    /\ pc' = CleanupSteps[1]
    /\ result' = "running"
    /\ loc' = NoLocals
    /\ UNCHANGED <<record, creds, cloud, status, nextId, log, nilDeref>>
    /\ UNCHANGED ext

\* if self._security_groups_rules: for rule in ...: delete_security_group_rule(rule)
DeleteSecurityGroupRule ==
    /\ pc = "cleanup_rules"
    /\ IF HasRules /\ loc.i <= Len(security_groups_rules)
         THEN \E ok \in Outcomes(security_groups_rules[loc.i] \in cloud.rules) :
                /\ Logged("delete_security_group_rule", security_groups_rules[loc.i], ok)
                /\ IF ok
                     THEN /\ cloud' = [cloud EXCEPT
                                         !.rules = @ \ {security_groups_rules[loc.i]}]
                          /\ loc' = [loc EXCEPT !.i = @ + 1]
                          /\ UNCHANGED <<record, pc, result>>
                     ELSE /\ Raise
                          /\ UNCHANGED cloud
         ELSE /\ Advance(CleanupSteps, "cleanup_rules")
              /\ UNCHANGED <<record, cloud, log>>
    /\ UNCHANGED <<creds, status, nextId, h, nilDeref>>
    /\ UNCHANGED ext

\* if self._security_group: remove_security_group(
\*     server_id=self.internal_instance_id(), name=...)
RemoveSecurityGroup ==
    /\ pc = "cleanup_security_group"
    /\ IF HasSecurityGroup
         THEN IF server = Nil
                THEN /\ nilDeref' = TRUE
                     /\ Raise
                     /\ UNCHANGED log
                ELSE /\ \E ok \in Outcomes(security_group \in cloud.secgroups
                                           /\ server \in Servers) :
                          /\ Logged("remove_security_group", security_group, ok)
                          /\ IF ok
                               THEN /\ Advance(CleanupSteps, "cleanup_security_group")
                                    /\ UNCHANGED record
                               ELSE Raise
                     /\ UNCHANGED nilDeref
         ELSE /\ Advance(CleanupSteps, "cleanup_security_group")
              /\ UNCHANGED <<record, log, nilDeref>>
    /\ UNCHANGED <<creds, cloud, status, nextId, h>>
    /\ UNCHANGED ext

\* if self._server: delete_server(self.internal_instance_id())
DeleteServer ==
    /\ pc = "cleanup_server"
    /\ IF HasServer
         THEN IF server = Nil
                THEN /\ nilDeref' = TRUE
                     /\ Raise
                     /\ UNCHANGED <<log, status>>
                ELSE /\ \E ok \in Outcomes(server \in Servers) :
                          /\ Logged("delete_server", server, ok)
                          /\ IF ok
                               THEN /\ status' = [status EXCEPT ![server] = "DELETING"]
                                    /\ pc' = "wait_termination"
                                    /\ UNCHANGED <<record, result, loc>>
                               ELSE /\ Raise
                                    /\ UNCHANGED status
                     /\ UNCHANGED nilDeref
         ELSE /\ Advance(CleanupSteps, "cleanup_server")
              /\ UNCHANGED <<record, log, status, nilDeref>>
    /\ UNCHANGED <<creds, cloud, nextId, h>>
    /\ UNCHANGED ext

\* (variant: the wait does not block, a timeout is ignored)
WaitTerminationNoBlock ==
    /\ pc = "wait_termination"
    /\ \E ok \in BOOLEAN :
         /\ Logged("wait_termination", server, ok)
         /\ status' = IF ok THEN [s \in Servers \ {server} |-> status[s]] ELSE status
         /\ Advance(CleanupSteps, "cleanup_server")
         /\ UNCHANGED record
    /\ UNCHANGED <<creds, cloud, nextId, h, nilDeref>>
    /\ UNCHANGED ext

\* waiters.wait_for_server_termination(...): returns once the server is gone
\* from the cloud, raises on timeout or ERROR.
WaitTermination ==
    /\ pc = "wait_termination"
    /\ \E ok \in BOOLEAN :
         /\ Logged("wait_termination", server, ok)
         /\ IF ok
              THEN /\ status' = [s \in Servers \ {server} |-> status[s]]
                   /\ Advance(CleanupSteps, "cleanup_server")
                   /\ UNCHANGED record
              ELSE /\ Raise
                   /\ UNCHANGED status
    /\ UNCHANGED <<creds, cloud, nextId, h, nilDeref>>
    /\ UNCHANGED ext

\* (variant: a failing delete is caught and the teardown goes on)
DeleteFloatingIpBestEffort ==
    /\ pc = "cleanup_floating_ip"
    /\ IF HasFloatingIp
         THEN \E ok \in Outcomes(floating_ip \in cloud.floating_ips) :
                /\ Logged("delete_floating_ip", floating_ip, ok)
                /\ cloud' = IF ok THEN [cloud EXCEPT !.floating_ips = @ \ {floating_ip}]
                                  ELSE cloud
                /\ Advance(CleanupSteps, "cleanup_floating_ip")
                /\ UNCHANGED record
         ELSE /\ Advance(CleanupSteps, "cleanup_floating_ip")
              /\ UNCHANGED <<record, cloud, log>>
    /\ UNCHANGED <<creds, status, nextId, h, nilDeref>>
    /\ UNCHANGED ext

\* if self._floating_ip: delete_floating_ip(self._floating_ip['id'])
DeleteFloatingIp ==
    /\ pc = "cleanup_floating_ip"
    /\ IF HasFloatingIp
         THEN \E ok \in Outcomes(floating_ip \in cloud.floating_ips) :
                /\ Logged("delete_floating_ip", floating_ip, ok)
                /\ IF ok
                     THEN /\ cloud' = [cloud EXCEPT !.floating_ips = @ \ {floating_ip}]
                          /\ Advance(CleanupSteps, "cleanup_floating_ip")
                          /\ UNCHANGED record
                     ELSE /\ Raise
                          /\ UNCHANGED cloud
         ELSE /\ Advance(CleanupSteps, "cleanup_floating_ip")
              /\ UNCHANGED <<record, cloud, log>>
    /\ UNCHANGED <<creds, status, nextId, h, nilDeref>>
    /\ UNCHANGED ext

\* if self._keypair: self._keypair.destroy()
DestroyKeypair ==
    /\ pc = "cleanup_keypair"
    /\ IF HasKeypair
         THEN \E ok \in Outcomes(keypair \in cloud.keypairs) :
                /\ Logged("destroy_keypair", keypair, ok)
                /\ IF ok
                     THEN /\ cloud' = [cloud EXCEPT !.keypairs = @ \ {keypair}]
                          /\ Advance(CleanupSteps, "cleanup_keypair")
                          /\ UNCHANGED record
                     ELSE /\ Raise
                          /\ UNCHANGED cloud
         ELSE /\ Advance(CleanupSteps, "cleanup_keypair")
              /\ UNCHANGED <<record, cloud, log>>
    /\ UNCHANGED <<creds, status, nextId, h, nilDeref>>
    /\ UNCHANGED ext

\* self._manager.cleanup_credentials(), the last statement of cleanup()
CleanupCredentials ==
    /\ pc = "cleanup_credentials"
    /\ IF CredentialsAcquired
         THEN \E ok \in BOOLEAN :
                /\ Logged("cleanup_credentials", Nil, ok)
                /\ IF ok
                     THEN /\ creds' = FALSE
                          /\ net' = ReleaseCredentials(net)
                          /\ Advance(CleanupSteps, "cleanup_credentials")
                          /\ UNCHANGED record
                     ELSE /\ Raise
                          /\ UNCHANGED <<creds, net>>
         ELSE /\ Advance(CleanupSteps, "cleanup_credentials")
              /\ UNCHANGED <<record, creds, log, net>>
    /\ UNCHANGED <<cloud, status, nextId, h, nilDeref, networks, fn>>

\* ------------------------------------------------------ specification
Next ==
    \/ SetupInstance
    \/ ConfigureNetworking
    \/ CreateKeypair
    \/ CreateServer
    \/ WaitActive
    \/ CreateFloatingIp
    \/ AssociateFloatingIp
    \/ CreateSecurityGroup
    \/ CreateSecurityGroupRule
    \/ AddSecurityGroup
    \/ Cleanup
    \/ DeleteSecurityGroupRule
    \/ RemoveSecurityGroup
    \/ DeleteServer
    \/ WaitTermination
    \/ DeleteFloatingIp
    \/ DestroyKeypair
    \/ CleanupCredentials

Spec == Init /\ [][Next]_vars

\* ------------------------------------ NetworkWindowsBackend (cloud.py)
SUBNET6_CIDR == "::ffff:a00:0/120"
DNSES6 == << "::ffff:808:808", "::ffff:808:404" >>

\* The networks the cloud may list: the tenant's isolated network, the extra
\* private network, a network of another tenant and an external network.
NETWORKS ==
    { [id |-> "primary", external |-> FALSE, tenant_id |-> "tenant"],
      [id |-> "private", external |-> FALSE, tenant_id |-> "tenant"],
      [id |-> "shared",  external |-> FALSE, tenant_id |-> "other"],
      [id |-> "public",  external |-> TRUE,  tenant_id |-> "tenant"] }

\* Lists of distinct networks.
Listings ==
    UNION { { l \in [1..n -> NETWORKS] :
                \A i, j \in 1..n : i # j => l[i].id # l[j].id } : n \in 0..MaxNets }

\* What list_networks() may return: a listing under the key "networks", or
\* a body without that key.
ListResponses == { [networks |-> l] : l \in Listings } \cup { [error |-> "NotFound"] }

\* The allocation pools a new subnet may have (addresses as numbers).
PoolChoices ==
    { << [start |-> 2, end |-> 254] >>,
      << [start |-> 10, end |-> 100], [start |-> 120, end |-> 200] >>,
      << [start |-> 253, end |-> 254] >> }

\* util.next_ip(ip, step): the address step addresses after ip.
next_ip(ip, step) == ip + step

\* allocation_pools[0]["start"] = util.next_ip(allocation_pools[0]["start"], step=2)
ShiftPoolsByOne(pools) == [pools EXCEPT ![1].start = next_ip(@, 1)]

ShiftPools(pools) == [pools EXCEPT ![1].start = next_ip(@, 2)]

\* list.remove(x): without the first occurrence of x.
Remove(l, x) ==
    LET k == CHOOSE i \in 1..Len(l) : l[i] = x /\ \A j \in 1..(i - 1) : l[j] # x
    IN  SubSeq(l, 1, k - 1) \o SubSeq(l, k + 1, Len(l))

InList(l, x) == \E i \in 1..Len(l) : l[i] = x

\* [net["id"] for net in _networks
\*  if not net["router:external"] and net[u'tenant_id'] == tenant_id]
TenantNetworks(listing, tenant_id) ==
    LET own == SelectSeq(listing, LAMBDA n : ~n.external /\ n.tenant_id = tenant_id)
    IN  [i \in 1..Len(own) |-> own[i].id]

\* networks.remove(head); networks.insert(0, head)
PutInFrontKeeping(l, head) == << head >> \o l

PutInFront(l, head) == << head >> \o Remove(l, head)

\* [{"uuid": net} for net in networks]
AdaptToApi(l) == [i \in 1..Len(l) |-> [uuid |-> l[i]]]

\* isinstance(self._manager.isolated_creds, DynamicCredentialProvider)
HasDynamicCredentialsAlways == TRUE

HasDynamicCredentials == net.dynamic

\* A caller invokes setup_instance() of NetworkWindowsBackend, which raises
\* at once without dynamic credentials.
NetSetupInstance ==
    /\ pc = "idle"
    /\ net.static
    /\ Len(h) < MaxNetSetups
    /\ h' = Append(h, "net_setup")
    /\ loc' = NoLocals
    /\ IF HasDynamicCredentials
         THEN /\ pc' = "create_network_resources"
              /\ result' = "running"
         ELSE /\ pc' = "idle"
              /\ result' = "raised"
    /\ UNCHANGED <<record, creds, cloud, status, nextId, log, nilDeref, ext>>

\* The network, subnet and router that _create_network_resources returns.
NetResources(id) ==
    [id |-> id, network |-> "private", subnet |-> "private-subnet",
     router |-> "private-router"]

\* (variant: the new bundle is not stored under the key "fake")
CreateNetworkResourcesUntracked ==
    /\ pc = "create_network_resources"
    /\ creds' = TRUE
    /\ \E ok \in BOOLEAN :
         IF ok
           THEN /\ Logged("create_network_resources", nextId, TRUE)
                /\ \E pools \in PoolChoices :
                     net' = [net EXCEPT
                               !.created = @ \cup {NetResources(nextId)},
                               !.dhcp = TRUE,
                               !.pools0 = pools,
                               !.pools = pools,
                               !.subnet6 = {}]
                /\ nextId' = nextId + 1
                /\ pc' = "disable_dhcp"
                /\ UNCHANGED <<record, result, loc>>
           ELSE /\ Logged("create_network_resources", Nil, FALSE)
                /\ Raise
                /\ UNCHANGED <<net, nextId>>
    /\ UNCHANGED <<cloud, status, h, nilDeref, networks, fn>>

\* _create_private_network: isolated_creds._create_network_resources(tenant_id)
\* and the registration of its result under the key "fake", which replaces
\* what was stored under that key.
CreateNetworkResources ==
    /\ pc = "create_network_resources"
    /\ creds' = TRUE
    /\ \E ok \in BOOLEAN :
         IF ok
           THEN /\ Logged("create_network_resources", nextId, TRUE)
                /\ \E pools \in PoolChoices :
                     net' = [net EXCEPT
                               !.created = @ \cup {NetResources(nextId)},
                               !.tracked = {NetResources(nextId)},
                               !.dhcp = TRUE,
                               !.pools0 = pools,
                               !.pools = pools,
                               !.subnet6 = {}]
                /\ nextId' = nextId + 1
                /\ pc' = "disable_dhcp"
                /\ UNCHANGED <<record, result, loc>>
           ELSE /\ Logged("create_network_resources", Nil, FALSE)
                /\ Raise
                /\ UNCHANGED <<net, nextId>>
    /\ UNCHANGED <<cloud, status, h, nilDeref, networks, fn>>

\* _create_private_network: update_subnet(subnet_id, enable_dhcp=False,
\* dns_nameservers=...)
DisableDhcp ==
    /\ pc = "disable_dhcp"
    /\ \E ok \in BOOLEAN :
         /\ Logged("update_subnet_dhcp", Nil, ok)
         /\ IF ok
              THEN /\ net' = [net EXCEPT !.dhcp = FALSE]
                   /\ pc' = "show_subnet"
                   /\ UNCHANGED <<record, result, loc>>
              ELSE /\ Raise
                   /\ UNCHANGED net
    /\ UNCHANGED <<creds, cloud, status, nextId, h, nilDeref, networks, fn>>

\* _create_private_network: show_subnet(subnet_id)["subnet"]["allocation_pools"]
\* and the shift of the first pool's start.
ShowSubnet ==
    /\ pc = "show_subnet"
    /\ \E ok \in BOOLEAN :
         /\ Logged("show_subnet", Nil, ok)
         /\ IF ok
              THEN /\ loc' = [allocation_pools |-> ShiftPools(net.pools)]
                   /\ pc' = "update_pools"
                   /\ UNCHANGED <<record, result>>
              ELSE Raise
    /\ UNCHANGED <<creds, cloud, status, nextId, h, nilDeref, ext>>

\* _create_private_network: update_subnet(subnet_id,
\* allocation_pools=allocation_pools)
UpdatePools ==
    /\ pc = "update_pools"
    /\ \E ok \in BOOLEAN :
         /\ Logged("update_subnet_pools", Nil, ok)
         /\ IF ok
              THEN /\ net' = [net EXCEPT !.pools = loc.allocation_pools]
                   /\ pc' = "create_subnet6"
                   /\ loc' = NoLocals
                   /\ UNCHANGED <<record, result>>
              ELSE /\ Raise
                   /\ UNCHANGED net
    /\ UNCHANGED <<creds, cloud, status, nextId, h, nilDeref, networks, fn>>

\* _create_private_network: create_subnet(network_id=..., cidr=SUBNET6_CIDR,
\* dns_nameservers=DNSES6, enable_dhcp=False, ip_version=6, ...)
CreateSubnet6 ==
    /\ pc = "create_subnet6"
    /\ \E ok \in BOOLEAN :
         /\ Logged("create_subnet", Nil, ok)
         /\ IF ok
              THEN /\ net' = [net EXCEPT
                                !.subnet6 = {[network_id |-> b.network,
                                              cidr |-> SUBNET6_CIDR,
                                              dns_nameservers |-> DNSES6,
                                              enable_dhcp |-> FALSE,
                                              ip_version |-> 6] : b \in net.tracked}]
                   /\ pc' = "get_networks"
                   /\ UNCHANGED <<record, result, loc>>
              ELSE /\ Raise
                   /\ UNCHANGED net
    /\ UNCHANGED <<creds, cloud, status, nextId, h, nilDeref, networks, fn>>

\* self._networks = self._get_networks(), then the setup_instance() of the
\* base class.  list_networks() may raise; a body without "networks" raises
\* ArgusError; list.remove raises when the isolated network is not listed.
GetNetworks ==
    /\ pc = "get_networks"
    /\ \E ok \in BOOLEAN :
         /\ Logged("list_networks", Nil, ok)
         /\ IF ok
              THEN \E resp \in ListResponses :
                     /\ net' = [net EXCEPT !.listing = resp]
                     /\ IF "networks" \notin DOMAIN resp
                          THEN /\ Raise
                               /\ UNCHANGED networks
                          ELSE LET ids == TenantNetworks(resp.networks, TenantId)
                               IN  IF ~InList(ids, IsolatedNetwork)
                                     THEN /\ Raise
                                          /\ UNCHANGED networks
                                     ELSE /\ networks' = AdaptToApi(
                                                PutInFront(ids, IsolatedNetwork))
                                          /\ pc' = SetupSteps[1]
                                          /\ UNCHANGED <<record, result, loc>>
              ELSE /\ Raise
                   /\ UNCHANGED <<net, networks>>
    /\ UNCHANGED <<creds, cloud, status, nextId, h, nilDeref, fn>>

NetInit ==
    /\ InitBackend
    /\ net \in { [NoNet EXCEPT !.static = TRUE, !.dynamic = b] : b \in BOOLEAN }
    /\ fn = NoFn

NetNext ==
    \/ NetSetupInstance
    \/ CreateNetworkResources
    \/ DisableDhcp
    \/ ShowSubnet
    \/ UpdatePools
    \/ CreateSubnet6
    \/ GetNetworks
    \/ ConfigureNetworking
    \/ CreateKeypair
    \/ CreateServer
    \/ WaitActive
    \/ CreateFloatingIp
    \/ AssociateFloatingIp
    \/ CreateSecurityGroup
    \/ CreateSecurityGroupRule
    \/ AddSecurityGroup

SpecNet == NetInit /\ [][NetNext]_vars

\* The static-network setup_instance() and the cleanup() it inherits.
NetCleanupNext ==
    \/ NetNext
    \/ Cleanup
    \/ DeleteSecurityGroupRule
    \/ RemoveSecurityGroup
    \/ DeleteServer
    \/ WaitTermination
    \/ DeleteFloatingIp
    \/ DestroyKeypair
    \/ CleanupCredentials

SpecNetCleanup == NetInit /\ [][NetCleanupNext]_vars

\* setup_instance() of a backend of either class.
AttachInit ==
    /\ InitBackend
    /\ net \in {NoNet} \cup { [NoNet EXCEPT !.static = TRUE, !.dynamic = b] : b \in BOOLEAN }
    /\ fn = NoFn

AttachNext == SetupInstance \/ NetNext

SpecAttach == AttachInit /\ [][AttachNext]_vars

\* ------------------------------------- RescueWindowsBackend (cloud.py)
\* A caller invokes rescue_server().
RescueServer ==
    /\ pc = "idle"
    /\ Len(h) < MaxOps
    /\ h' = Append(h, "rescue")
    /\ pc' = "rescue_server"
    /\ result' = "running"
    /\ loc' = NoLocals
    /\ UNCHANGED <<record, creds, cloud, status, nextId, log, nilDeref, ext>>

\* servers_client.rescue_server(self.internal_instance_id(), adminPass=...):
\* the cloud accepts the command for an ACTIVE server.
RescueCommand ==
    /\ pc = "rescue_server"
    /\ IF server = Nil
         THEN /\ nilDeref' = TRUE
              /\ Raise
              /\ UNCHANGED log
         ELSE /\ \E ok \in Outcomes(server \in Servers /\ status[server] = "ACTIVE") :
                   /\ Logged("rescue_server", server, ok)
                   /\ IF ok
                        THEN /\ pc' = "wait_rescue"
                             /\ UNCHANGED <<record, result, loc>>
                        ELSE Raise
              /\ UNCHANGED nilDeref
    /\ UNCHANGED <<creds, cloud, status, nextId, h, ext>>

\* (variant: rescue_server() does not wait for the status)
RescueWaitNoBlock ==
    /\ pc = "wait_rescue"
    /\ \E ok \in BOOLEAN :
         /\ Logged("wait_rescue", server, ok)
         /\ status' = IF ok THEN [status EXCEPT ![server] = "RESCUE"] ELSE status
         /\ Return
         /\ UNCHANGED record
    /\ UNCHANGED <<creds, cloud, nextId, h, nilDeref, ext>>

\* waiters.wait_for_server_status(..., 'RESCUE'): returns once the server is
\* in status RESCUE, raises on timeout or ERROR.
RescueWait ==
    /\ pc = "wait_rescue"
    /\ \E ok \in BOOLEAN :
         /\ Logged("wait_rescue", server, ok)
         /\ IF ok
              THEN /\ status' = [status EXCEPT ![server] = "RESCUE"]
                   /\ Return
                   /\ UNCHANGED record
              ELSE /\ \E st \in {"ACTIVE", "ERROR"} :
                        status' = [status EXCEPT ![server] = st]
                   /\ Raise
    /\ UNCHANGED <<creds, cloud, nextId, h, nilDeref, ext>>

\* A caller invokes unrescue_server().
UnrescueServer ==
    /\ pc = "idle"
    /\ Len(h) < MaxOps
    /\ h' = Append(h, "unrescue")
    /\ pc' = "unrescue_server"
    /\ result' = "running"
    /\ loc' = NoLocals
    /\ UNCHANGED <<record, creds, cloud, status, nextId, log, nilDeref, ext>>

\* servers_client.unrescue_server(self.internal_instance_id()): the cloud
\* accepts the command for a server in RESCUE.
UnrescueCommand ==
    /\ pc = "unrescue_server"
    /\ IF server = Nil
         THEN /\ nilDeref' = TRUE
              /\ Raise
              /\ UNCHANGED log
         ELSE /\ \E ok \in Outcomes(server \in Servers /\ status[server] = "RESCUE") :
                   /\ Logged("unrescue_server", server, ok)
                   /\ IF ok
                        THEN /\ pc' = "wait_unrescue"
                             /\ UNCHANGED <<record, result, loc>>
                        ELSE Raise
              /\ UNCHANGED nilDeref
    /\ UNCHANGED <<creds, cloud, status, nextId, h, ext>>

\* waiters.wait_for_server_status(..., 'ACTIVE')
UnrescueWait ==
    /\ pc = "wait_unrescue"
    /\ \E ok \in BOOLEAN :
         /\ Logged("wait_unrescue", server, ok)
         /\ IF ok
              THEN /\ status' = [status EXCEPT ![server] = "ACTIVE"]
                   /\ Return
                   /\ UNCHANGED record
              ELSE /\ \E st \in {"RESCUE", "ERROR"} :
                        status' = [status EXCEPT ![server] = st]
                   /\ Raise
    /\ UNCHANGED <<creds, cloud, nextId, h, nilDeref, ext>>

RescueNext ==
    \/ SetupInstance
    \/ ConfigureNetworking
    \/ CreateKeypair
    \/ CreateServer
    \/ WaitActive
    \/ CreateFloatingIp
    \/ AssociateFloatingIp
    \/ CreateSecurityGroup
    \/ CreateSecurityGroupRule
    \/ AddSecurityGroup
    \/ RescueServer
    \/ RescueCommand
    \/ RescueWait
    \/ UnrescueServer
    \/ UnrescueCommand
    \/ UnrescueWait

SpecRescue == Init /\ [][RescueNext]_vars

\* ---------------------------------- _create_server: the request built
\* Python values: their type, their length (0 for None) and their text.
PyNone == [t |-> "NoneType", len |-> 0, repr |-> "None"]
PyStr(x, n) == [t |-> "str", len |-> n, repr |-> x]
PyList(x, n) == [t |-> "list", len |-> n, repr |-> x]
PyDict(x, n) == [t |-> "dict", len |-> n, repr |-> x]

\* The keyword arguments _create_server may be called with.
KwargsChoices ==
    [ key_name          : {PyNone, PyStr("", 0), PyStr("BaseTempestBackend", 18)},
      disk_config       : {PyNone, PyStr("", 0), PyStr("AUTO", 4)},
      user_data         : {PyNone, PyStr("", 0), PyStr("dXNlcg==", 8)},
      metadata          : {PyNone, PyDict("{}", 0), PyDict("{'k': 'v'}", 1)},
      networks          : {PyNone, PyList("[]", 0), PyList("[{'uuid': 'primary'}]", 1)},
      availability_zone : {PyNone, PyStr("", 0), PyStr("nova", 4)} ]

\* bool(value): None is false, a string, list or dict is true when not empty.
IsNotNone(value) == value.t # "NoneType"

Truthy(value) == value.t # "NoneType" /\ value.len > 0

\* for key, value in list(kwargs.items()): if not value: del kwargs[key]
DropFalsy(kwargs) ==
    [key \in {k \in DOMAIN kwargs : Truthy(kwargs[k])} |-> kwargs[key]]

\* The arguments of servers_client.create_server(name=..., imageRef=...,
\* flavorRef=..., **kwargs).
CreateServerRequest(kwargs) ==
    [name |-> PyStr("name-instance", 13),
     imageRef |-> PyStr("image_ref", 9),
     flavorRef |-> PyStr("flavor_ref", 10)] @@ DropFalsy(kwargs)

\* _create_server is called with the keyword arguments fn.arg.
BuildCreateServerRequest ==
    /\ ~fn.done
    /\ fn' = [fn EXCEPT !.res = CreateServerRequest(fn.arg), !.done = TRUE]
    /\ UNCHANGED <<record, creds, cloud, status, nextId, log, h, pc, result, loc,
                   nilDeref, networks, net>>

KwargsInit ==
    /\ InitBackend
    /\ net = NoNet
    /\ fn \in { [arg |-> kw, res |-> Nil, done |-> FALSE] : kw \in KwargsChoices }

KwargsNext == BuildCreateServerRequest

SpecKwargs == KwargsInit /\ [][KwargsNext]_vars

\* ------------------------ NetworkWindowsBackend.get_network_interfaces
\* An optional value: None is the empty set, a value x is {x}.
None == {}
Some(x) == {x}

\* argus.util.NETWORK_KEYS, the keys of a network interface.
NETWORK_KEYS ==
    {"mac", "address", "address6", "gateway", "gateway6",
     "netmask", "netmask6", "dns", "dns6", "dhcp"}

\* show_subnet(subnet_id)["subnet"] for the subnets of the tenant.
SUBNETS ==
    [ s4 |-> [ip_version |-> 4, enable_dhcp |-> FALSE,
              dns_nameservers |-> << "8.8.8.8", "8.8.4.4" >>,
              gateway_ip |-> "10.0.0.1",
              cidr |-> [ip |-> "10.0.0.0", prefix |-> 24]],
      s6 |-> [ip_version |-> 6, enable_dhcp |-> TRUE,
              dns_nameservers |-> DNSES6,
              gateway_ip |-> "::ffff:a00:1",
              cidr |-> [ip |-> "::ffff:a00:0", prefix |-> 120]],
      t4 |-> [ip_version |-> 4, enable_dhcp |-> TRUE,
              dns_nameservers |-> << "1.1.1.1" >>,
              gateway_ip |-> "10.1.0.1",
              cidr |-> [ip |-> "10.1.0.0", prefix |-> 16]] ]

\* list_ports()["ports"] may hold these ports.
PORTS ==
    { [device_owner |-> "compute:nova", mac_address |-> "fa:16:3e:00:00:01",
       fixed_ips |-> << [subnet_id |-> "s4", ip_address |-> "10.0.0.5"],
                        [subnet_id |-> "s6", ip_address |-> "::ffff:a00:5"] >>],
      [device_owner |-> "network:dhcp", mac_address |-> "fa:16:3e:00:00:02",
       fixed_ips |-> << [subnet_id |-> "s4", ip_address |-> "10.0.0.2"] >>],
      [device_owner |-> "compute:nova", mac_address |-> "fa:16:3e:00:00:03",
       fixed_ips |-> << [subnet_id |-> "s4", ip_address |-> "10.0.0.9"] >>],
      [device_owner |-> "compute:nova", mac_address |-> "fa:16:3e:00:00:04",
       fixed_ips |-> << [subnet_id |-> "t4", ip_address |-> "10.1.0.5"] >>] }

\* Lists of distinct ports.
PortListings ==
    UNION { { l \in [1..n -> PORTS] :
                \A i, j \in 1..n : i # j => l[i] # l[j] } : n \in 0..MaxPorts }

\* show_network(network_id)["network"]["subnets"]: the isolated network has
\* an IPv4 subnet and may have an IPv6 one, listed in either order.
SubnetsChoices ==
    { [primary |-> sp, private |-> << "t4" >>] :
        sp \in { << "s4" >>, << "s4", "s6" >>, << "s6", "s4" >> } }

\* self._networks when get_network_interfaces is called.
AttachLists ==
    { << >>, AdaptToApi(<< "primary" >>), AdaptToApi(<< "primary", "private" >>) }

\* "compute" in port["device_owner"]
IsCompute(device_owner) == device_owner \in {"compute:nova", "compute:None"}

\* str.upper() of the MAC addresses.
Upper(mac) ==
    CASE mac = "fa:16:3e:00:00:01" -> "FA:16:3E:00:00:01"
      [] mac = "fa:16:3e:00:00:02" -> "FA:16:3E:00:00:02"
      [] mac = "fa:16:3e:00:00:03" -> "FA:16:3E:00:00:03"
      [] mac = "fa:16:3e:00:00:04" -> "FA:16:3E:00:00:04"

\* argus.util.cidr2netmask: the dotted netmask of an IPv4 CIDR.
cidr2netmask(cidr) ==
    CASE cidr.prefix = 8 -> "255.0.0.0"
      [] cidr.prefix = 16 -> "255.255.0.0"
      [] cidr.prefix = 24 -> "255.255.255.0"

\* key + v6suffix
Suffixed(key, v6switch) ==
    IF ~v6switch THEN key
    ELSE CASE key = "dns" -> "dns6"
           [] key = "gateway" -> "gateway6"
           [] key = "netmask" -> "netmask6"
           [] key = "address" -> "address6"

\* _find_ip_address: the address of the first fixed IP of the port in the
\* subnet, None without one.
_find_ip_address(port, subnet_id) ==
    LET m == {i \in 1..Len(port.fixed_ips) : port.fixed_ips[i].subnet_id = subnet_id}
    IN  IF m = {} THEN None
        ELSE Some(port.fixed_ips[CHOOSE i \in m : \A j \in m : i <= j].ip_address)

\* The body of the loop over the subnets of a network: the subnet's fields,
\* then the MAC and address of the first compute port with an address in it.
WithSubnet(nic, subnet_id, ports) ==
    LET details == SUBNETS[subnet_id]
        v6switch == details.ip_version = 6
        nic1 == [nic EXCEPT
                   !["dhcp"] = Some(details.enable_dhcp),
                   ![Suffixed("dns", v6switch)] = Some(details.dns_nameservers),
                   ![Suffixed("gateway", v6switch)] = Some(details.gateway_ip),
                   ![Suffixed("netmask", v6switch)] =
                       IF v6switch THEN Some(ToString(details.cidr.prefix))
                                   ELSE Some(cidr2netmask(details.cidr))]
        m == {i \in 1..Len(ports) :
                /\ IsCompute(ports[i].device_owner)
                /\ _find_ip_address(ports[i], subnet_id) # None}
    IN  IF m = {} THEN nic1
        ELSE LET port == ports[CHOOSE i \in m : \A j \in m : i <= j]
             IN  [nic1 EXCEPT
                    !["mac"] = Some(Upper(port.mac_address)),
                    ![Suffixed("address", v6switch)] =
                        _find_ip_address(port, subnet_id)]

\* nic = dict.fromkeys(util.NETWORK_KEYS), filled by the loop over the
\* subnets of the network.
RECURSIVE NicOfSubnets(_, _, _)
NicOfLastSubnet(nic, subnets, ports) ==
    IF subnets = << >> THEN nic
    ELSE WithSubnet([k \in NETWORK_KEYS |-> None], subnets[Len(subnets)], ports)

NicOfSubnets(nic, subnets, ports) ==
    IF subnets = << >> THEN nic
    ELSE NicOfSubnets(WithSubnet(nic, Head(subnets), ports), Tail(subnets), ports)

\* get_network_interfaces(): one interface per network of self._networks.
get_network_interfaces(arg) ==
    [i \in 1..Len(arg.networks) |->
        NicOfSubnets([k \in NETWORK_KEYS |-> None],
                     arg.subnets[arg.networks[i].uuid], arg.ports)]

\* get_network_interfaces() is called.
GetNetworkInterfaces ==
    /\ ~fn.done
    /\ fn' = [fn EXCEPT !.res = get_network_interfaces(fn.arg), !.done = TRUE]
    /\ UNCHANGED <<record, creds, cloud, status, nextId, log, h, pc, result, loc,
                   nilDeref, networks, net>>

NicsInit ==
    /\ InitBackend
    /\ net = NoNet
    /\ fn \in { [arg |-> [networks |-> a, subnets |-> sn, ports |-> p],
                 res |-> Nil, done |-> FALSE] :
                  a \in AttachLists, sn \in SubnetsChoices, p \in PortListings }

NicsNext == GetNetworkInterfaces

SpecNics == NicsInit /\ [][NicsNext]_vars

\* ------------------------------------------------- reading the history
Runs == 1..Len(h)

\* The cloud calls of the r-th invoked method, in order.
RunLog(r) == SelectSeq(log, LAMBDA e : e.run = r)

OpsOf(s) == [i \in 1..Len(s) |-> s[i].op]

IsPrefix(s, t) == Len(s) <= Len(t) /\ \A i \in 1..Len(s) : s[i] = t[i]

\* The method invoked last has finished.
Finished == pc = "idle" /\ h # << >>

\* Resource ids the record refers to.
RecordedRules == {security_groups_rules[i] : i \in 1..Len(security_groups_rules)}

\* ------------------------------------------------------------ claims

\* C1: whenever no method is running, each field of the record (server,
\* keypair, security group, recorded rule ids, floating IP) is set if and
\* only if the corresponding cloud resource was created and not yet deleted:
\* the resources the record names are exactly the resources that exist.
C1_FieldIffResourceExists ==
    pc = "idle" =>
        /\ {server} \ {Nil} = Servers
        /\ {keypair} \ {Nil} = cloud.keypairs
        /\ {security_group} \ {Nil} = cloud.secgroups
        /\ {floating_ip} \ {Nil} = cloud.floating_ips
        /\ RecordedRules = cloud.rules

\* C2: after one setup_instance(), successful or failed at any step, and a
\* cleanup() that returned (every cloud call of it succeeded), no resource
\* created by the setup is left in the cloud.
C2_NoLeakAfterCleanup ==
    (h = << "setup", "cleanup" >> /\ pc = "idle" /\ result = "returned") =>
        /\ Servers = {}
        /\ cloud.keypairs = {}
        /\ cloud.floating_ips = {}
        /\ cloud.secgroups = {}
        /\ cloud.rules = {}

\* C3: the cloud calls of one setup_instance() follow the fixed order
\* update subnet DNS, create keypair, create server, wait ACTIVE, create
\* floating IP, associate it, create security group, create the rules,
\* attach the group; a call is issued only after every earlier call of the
\* same setup_instance() returned, and the floating IP is only allocated for
\* a server observed ACTIVE.
C3_SetupOrder ==
    /\ \A r \in Runs :
         h[r] = "setup" =>
           LET l == RunLog(r)
           IN  /\ IsPrefix(OpsOf(l), SetupOrder)
               /\ \A i \in 1..(Len(l) - 1) : l[i].ok
    /\ pc \in {"create_floating_ip", "associate_floating_ip"} =>
         /\ server \in Servers
         /\ status[server] = "ACTIVE"

\* A setup_instance() has issued all its calls and returned.
C3_Witness ==
    /\ Finished
    /\ h[Len(h)] = "setup"
    /\ result = "returned"
    /\ OpsOf(RunLog(Len(h))) = SetupOrder

\* The cloud calls of cleanup() that delete or detach a resource.
DeleteOps ==
    {"delete_security_group_rule", "remove_security_group", "delete_server",
     "delete_floating_ip", "destroy_keypair"}

\* Every pair of calls of every cleanup() is ordered by rank.
OrderedBy(rank(_)) ==
    \A r \in Runs :
      h[r] = "cleanup" =>
        LET l == RunLog(r)
        IN  \A i, j \in 1..Len(l) : i < j => rank(l[i].op) <= rank(l[j].op)

\* C4 (as stated): the cleanup steps run in the exact reverse of the creation
\* sequence keypair, server, floating IP, security group, that is security
\* group, floating IP, server, keypair.
ReverseRank(op) ==
    CASE op \in {"delete_security_group_rule", "remove_security_group"} -> 1
      [] op = "delete_floating_ip" -> 2
      [] op \in {"delete_server", "wait_termination"} -> 3
      [] op = "destroy_keypair" -> 4
      [] OTHER -> 5

C4_ExactReverseOrder == OrderedBy(ReverseRank)

\* C4 (amended): the cleanup steps run in the order security group, server,
\* floating IP, keypair: the reverse of the creation sequence except that
\* the server is deleted before the floating IP.
ResourceRank(op) ==
    CASE op \in {"delete_security_group_rule", "remove_security_group"} -> 1
      [] op \in {"delete_server", "wait_termination"} -> 2
      [] op = "delete_floating_ip" -> 3
      [] op = "destroy_keypair" -> 4
      [] OTHER -> 5

C4_CleanupOrder == OrderedBy(ResourceRank)

\* A cleanup() has torn down all four resources.
C4_Witness ==
    /\ Finished
    /\ h[Len(h)] = "cleanup"
    /\ LET ops == {RunLog(Len(h))[i].op : i \in 1..Len(RunLog(Len(h)))}
       IN  {"remove_security_group", "delete_server", "delete_floating_ip",
            "destroy_keypair"} \subseteq ops

\* C5: the calls of one cleanup() occur in the order delete the recorded
\* rules, detach the security group, delete the server, wait for its
\* termination, delete the floating IP, destroy the keypair, release the
\* credentials, each at most once except the rule deletions; a floating IP
\* is deleted only after the wait for the server's termination returned,
\* and the release of the credentials is the last call.
StepRank(op) ==
    CASE op = "delete_security_group_rule" -> 1
      [] op = "remove_security_group" -> 2
      [] op = "delete_server" -> 3
      [] op = "wait_termination" -> 4
      [] op = "delete_floating_ip" -> 5
      [] op = "destroy_keypair" -> 6
      [] op = "cleanup_credentials" -> 7
      [] OTHER -> 0

C5_CleanupStepOrder ==
    \A r \in Runs :
      h[r] = "cleanup" =>
        LET l == RunLog(r)
        IN  /\ \A i \in 1..Len(l) : StepRank(l[i].op) > 0
            /\ \A i, j \in 1..Len(l) :
                 i < j => \/ StepRank(l[i].op) < StepRank(l[j].op)
                          \/ /\ StepRank(l[i].op) = 1
                             /\ StepRank(l[j].op) = 1
            /\ \A j \in 1..Len(l) :
                 l[j].op = "delete_floating_ip" =>
                   \E i \in 1..(j - 1) : l[i].op = "wait_termination" /\ l[i].ok
            /\ \A i \in 1..Len(l) :
                 l[i].op = "cleanup_credentials" => i = Len(l)

\* A cleanup() went through every step.
C5_Witness ==
    /\ Finished
    /\ h[Len(h)] = "cleanup"
    /\ result = "returned"
    /\ OpsOf(RunLog(Len(h))) =
         << "delete_security_group_rule", "delete_security_group_rule",
            "delete_security_group_rule", "delete_security_group_rule",
            "delete_security_group_rule", "remove_security_group",
            "delete_server", "wait_termination", "delete_floating_ip",
            "destroy_keypair", "cleanup_credentials" >>

\* C6: after a cleanup() that returned, every field of the record is back
\* to None / empty.
C6_RecordEmptyAfterCleanup ==
    (Finished /\ h[Len(h)] = "cleanup" /\ result = "returned") =>
        /\ server = Nil
        /\ keypair = Nil
        /\ security_group = Nil
        /\ floating_ip = Nil
        /\ security_groups_rules = << >>

\* C7: as long as setup_instance() was never called, cleanup() issues no
\* cloud call, does not raise and leaves everything as constructed.
C7_CleanupOfFreshRecordIsNoOp ==
    (\A r \in Runs : h[r] = "cleanup") =>
        /\ log = << >>
        /\ result # "raised"
        /\ ~nilDeref
        /\ record = << Nil, Nil, Nil, << >>, Nil >>
        /\ ~creds

\* cleanup() was called on the fresh record and has returned.
C7_Witness ==
    /\ h = << "cleanup" >>
    /\ pc = "idle"
    /\ result = "returned"

\* Some call of the log created resource id by operation op and returned.
Created(op, id) == \E i \in 1..Len(log) : log[i].op = op /\ log[i].ok /\ log[i].id = id

\* The call of setup_instance() whose return records the resource that the
\* delete or detach call op of cleanup() is about.
RecordedBy(op) ==
    CASE op = "delete_security_group_rule" -> "create_security_group_rule"
      [] op = "remove_security_group" -> "add_security_group"
      [] op = "delete_server" -> "wait_active"
      [] op = "delete_floating_ip" -> "associate_floating_ip"
      [] op = "destroy_keypair" -> "create_keypair"

\* C8: a field that is set names a resource whose creation call returned
\* (for the server: creation and the wait for ACTIVE), and every delete or
\* detach call of cleanup() is about a resource that an earlier call recorded
\* in its field: none is issued for None, and internal_instance_id() is never
\* evaluated with _server None.
C8_NonNilImpliesCreated ==
    /\ server # Nil =>
         /\ Created("create_server", server)
         /\ Created("wait_active", server)
    /\ keypair # Nil => Created("create_keypair", keypair)
    /\ floating_ip # Nil =>
         /\ Created("create_floating_ip", floating_ip)
         /\ Created("associate_floating_ip", floating_ip)
    /\ security_group # Nil =>
         /\ Created("create_security_group", security_group)
         /\ Created("add_security_group", security_group)
    /\ \A id \in RecordedRules : Created("create_security_group_rule", id)
    /\ \A i \in 1..Len(log) :
         log[i].op \in DeleteOps =>
           /\ log[i].id # Nil
           /\ \E j \in 1..(i - 1) :
                /\ log[j].ok
                /\ log[j].id = log[i].id
                /\ log[j].op = RecordedBy(log[i].op)
    /\ ~nilDeref

\* A cleanup() returned for a setup_instance() that stopped before the
\* server was recorded: it destroyed the keypair and skipped the rest.
C8_Witness ==
    /\ h = << "setup", "cleanup" >>
    /\ pc = "idle"
    /\ result = "returned"
    /\ keypair # Nil
    /\ server = Nil
    /\ floating_ip = Nil
    /\ security_group = Nil
    /\ OpsOf(RunLog(2)) = << "destroy_keypair", "cleanup_credentials" >>

\* The method invoked last is m and it is running.
Running(m) == h # << >> /\ h[Len(h)] = m /\ result = "running"

\* C9: a failing step of setup_instance() ends it at once: the failed call
\* is the last call of that setup_instance(), which issues no delete or
\* detach call, and the step that raises leaves every field of the record
\* as it was.
C9_SetupFailFast ==
    /\ [](\A r \in Runs :
            h[r] = "setup" =>
              LET l == RunLog(r)
              IN  /\ \A i \in 1..Len(l) : l[i].op \notin DeleteOps
                                          /\ l[i].op # "cleanup_credentials"
                  /\ \A i \in 1..Len(l) : ~l[i].ok => i = Len(l)
                  /\ (l # << >> /\ ~l[Len(l)].ok) =>
                        (r < Len(h) \/ (pc = "idle" /\ result = "raised")))
    /\ [][(Running("setup") /\ result' = "raised") =>
            (record' = record /\ pc' = "idle" /\ cloud' = cloud /\ h' = h)]_vars

\* setup_instance() raised while associating the floating IP: keypair and
\* server are recorded, floating IP and security group are not.
C9_Witness ==
    /\ h = << "setup" >>
    /\ pc = "idle"
    /\ result = "raised"
    /\ keypair # Nil
    /\ server # Nil
    /\ floating_ip = Nil
    /\ log[Len(log)].op = "associate_floating_ip"

\* C10: a failing call of cleanup() ends it at once: the failed call is the
\* last call of that cleanup(), which raises; nothing after it is deleted
\* and the credentials are not released.
C10_CleanupFailFast ==
    /\ [](\A r \in Runs :
            h[r] = "cleanup" =>
              LET l == RunLog(r)
              IN  /\ \A i \in 1..Len(l) : ~l[i].ok => i = Len(l)
                  /\ (l # << >> /\ ~l[Len(l)].ok) =>
                        (r < Len(h) \/ (pc = "idle" /\ result = "raised")))
    /\ [][(Running("cleanup") /\ result' = "raised") =>
            (creds' = creds /\ cloud' = cloud /\ pc' = "idle" /\ h' = h)]_vars

\* cleanup() raised while deleting the floating IP: the keypair was not
\* destroyed and the credentials were not released.
C10_Witness ==
    /\ h = << "setup", "cleanup" >>
    /\ pc = "idle"
    /\ result = "raised"
    /\ log[Len(log)].op = "delete_floating_ip"
    /\ keypair \in cloud.keypairs
    /\ creds

\* The five rules every security group gets, as the cloud is asked for them.
ExpectedRules ==
    << [ip_protocol |-> "tcp",  from_port |-> 3389, to_port |-> 3389, cidr |-> "0.0.0.0/0"],
       [ip_protocol |-> "tcp",  from_port |-> 5985, to_port |-> 5985, cidr |-> "0.0.0.0/0"],
       [ip_protocol |-> "tcp",  from_port |-> 5986, to_port |-> 5986, cidr |-> "0.0.0.0/0"],
       [ip_protocol |-> "tcp",  from_port |-> 22,   to_port |-> 22,   cidr |-> "0.0.0.0/0"],
       [ip_protocol |-> "icmp", from_port |-> -1,   to_port |-> -1,   cidr |-> "0.0.0.0/0"] >>

\* C11: when the call that attaches a security group to the server is about
\* to be issued or has been issued, the five calls before it created, one
\* after another, the rules TCP 3389, TCP 5985, TCP 5986, TCP 22 and ICMP
\* any/any from 0.0.0.0/0 in that group, right after the group's creation,
\* and (before the attach call) the ids of the five are the last five
\* recorded in _security_groups_rules.
C11_FiveRulesBeforeAttach ==
    /\ \A k \in 1..Len(log) :
         log[k].op = "add_security_group" =>
           /\ k > 6
           /\ log[k - 6].op = "create_security_group"
           /\ log[k - 6].ok
           /\ log[k - 6].id = log[k].id
           /\ \A n \in 1..5 :
                /\ log[k - 6 + n].op = "create_security_group_rule"
                /\ log[k - 6 + n].ok
                /\ log[k - 6 + n].run = log[k].run
                /\ cloud.rulesets[log[k - 6 + n].id] =
                     [parent_group_id |-> log[k].id, ruleset |-> ExpectedRules[n]]
    /\ pc = "add_security_group" =>
         /\ Len(log) >= 5
         /\ Len(security_groups_rules) >= 5
         /\ \A n \in 1..5 :
              /\ log[Len(log) - 5 + n].op = "create_security_group_rule"
              /\ security_groups_rules[Len(security_groups_rules) - 5 + n] =
                   log[Len(log) - 5 + n].id
              /\ cloud.rulesets[log[Len(log) - 5 + n].id] =
                   [parent_group_id |-> loc.secgroup, ruleset |-> ExpectedRules[n]]

\* A security group was created, got its rules and was attached.
C11_Witness ==
    /\ h = << "setup" >>
    /\ pc = "idle"
    /\ result = "returned"
    /\ security_group # Nil
    /\ Len(security_groups_rules) = 5
    /\ log[Len(log)].op = "add_security_group"

\* Every call of the r-th invoked method returned.
AllReturned(r) == \A i \in 1..Len(log) : log[i].run = r => log[i].ok

\* Resource id was created by the r-th invoked method.
CreatedIn(r, id) == \E i \in 1..Len(log) : log[i].run = r /\ log[i].ok /\ log[i].id = id

\* C20: after a setup_instance(), a completed cleanup() and a second
\* successful setup_instance(), the record names only resources created by
\* the second setup_instance().
C20_SecondSetupRecordIsFresh ==
    (h = << "setup", "cleanup", "setup" >> /\ pc = "idle" /\ result = "returned"
       /\ AllReturned(2)) =>
        \A id \in ({server, keypair, security_group, floating_ip} \cup RecordedRules) :
            CreatedIn(3, id)

\* C12: the attach list computed by _get_networks() starts with the id of
\* the tenant's isolated network and names no network twice; after a
\* successful setup_instance() it names exactly the tenant's own non-external
\* networks of the list the cloud returned.
C12_PrimaryFirstNoDuplicates ==
    networks # << >> =>
        /\ Len(networks) >= 1
        /\ networks[1] = [uuid |-> IsolatedNetwork]
        /\ \A i, j \in 1..Len(networks) : i # j => networks[i] # networks[j]
        /\ (pc = "idle" /\ result = "returned") =>
           {networks[i].uuid : i \in 1..Len(networks)} =
             {n.id : n \in {net.listing.networks[k] : k \in 1..Len(net.listing.networks)}
                          \cap {m \in NETWORKS : ~m.external /\ m.tenant_id = TenantId}}

\* A static-network setup_instance() returned; the cloud had listed another
\* network of the tenant before the isolated one.
C12_Witness ==
    /\ h = << "net_setup" >>
    /\ pc = "idle"
    /\ result = "returned"
    /\ Len(networks) = 2
    /\ Len(net.listing.networks) = 4
    /\ net.listing.networks[1].id = "private"
    /\ net.listing.networks[4].id = "primary"

\* C13: without dynamic credentials the static-network setup_instance()
\* raises at once: no cloud call is made, no private network exists, and
\* the record and the attach list are as constructed.
C13_NotDynamicFailsAtOnce ==
    ~net.dynamic =>
        /\ log = << >>
        /\ net.tracked = {}
        /\ net.subnet6 = {}
        /\ ~creds
        /\ record = << Nil, Nil, Nil, << >>, Nil >>
        /\ networks = << >>
        /\ pc = "idle"
        /\ h # << >> => result = "raised"

\* The static-network setup_instance() was called without dynamic credentials.
C13_Witness ==
    /\ ~net.dynamic
    /\ h = << "net_setup" >>
    /\ result = "raised"

\* C14: when _get_networks() raises because the body returned by
\* list_networks() has no "networks" entry, nothing has been created for the
\* run: no private network, no subnet change, no IPv6 subnet.
C14_NoNetworksRaisedBeforeCreation ==
    (pc = "idle" /\ result = "raised"
       /\ "error" \in DOMAIN net.listing
       /\ log # << >> /\ log[Len(log)].op = "list_networks") =>
        /\ net.tracked = {}
        /\ net.subnet6 = {}
        /\ net.dhcp
        /\ net.pools = net.pools0

\* The first pool's start of q is two addresses after that of p; the rest of
\* q is that of p.
ShiftedByTwo(p, q) ==
    /\ Len(q) = Len(p)
    /\ q[1].start = p[1].start + 2
    /\ q[1].end = p[1].end
    /\ \A i \in 2..Len(p) : q[i] = p[i]

\* C18: in _create_private_network() the pools sent with update_subnet are
\* the pools read from the subnet with the start of the first pool moved
\* two addresses up and everything else unchanged; the subnet keeps its
\* original pools until that call returns and has the shifted ones after.
C18_PoolStartShiftedByTwo ==
    /\ pc \in {"disable_dhcp", "show_subnet", "update_pools"} => net.pools = net.pools0
    /\ pc = "update_pools" => ShiftedByTwo(net.pools0, loc.allocation_pools)
    /\ pc \in {"create_subnet6", "get_networks"} => ShiftedByTwo(net.pools0, net.pools)

\* The shifted pools of a subnet with two pools have been sent.
C18_Witness ==
    /\ pc = "create_subnet6"
    /\ Len(net.pools0) = 2
    /\ net.pools0[1].start = 10
    /\ net.pools[1].start = 12

\* C15: rescue_server() issues the rescue command and then waits: it
\* returns only with the server in status RESCUE; unrescue_server() issues
\* the unrescue command and then waits: it returns only with the server in
\* status ACTIVE; when the command or the wait fails (or there is no
\* server) the method raises; neither method changes a field of the record.
C15_RescueStateMachine ==
    /\ [](\A r \in Runs :
            /\ h[r] = "rescue" =>
                 /\ IsPrefix(OpsOf(RunLog(r)), << "rescue_server", "wait_rescue" >>)
                 /\ \A i \in 1..(Len(RunLog(r)) - 1) : RunLog(r)[i].ok
            /\ h[r] = "unrescue" =>
                 /\ IsPrefix(OpsOf(RunLog(r)), << "unrescue_server", "wait_unrescue" >>)
                 /\ \A i \in 1..(Len(RunLog(r)) - 1) : RunLog(r)[i].ok)
    /\ []((Finished /\ h[Len(h)] = "rescue") =>
            IF result = "returned"
              THEN /\ OpsOf(RunLog(Len(h))) = << "rescue_server", "wait_rescue" >>
                   /\ AllReturned(Len(h))
                   /\ status[server] = "RESCUE"
              ELSE /\ result = "raised"
                   /\ RunLog(Len(h)) = << >> \/ ~AllReturned(Len(h)))
    /\ []((Finished /\ h[Len(h)] = "unrescue") =>
            IF result = "returned"
              THEN /\ OpsOf(RunLog(Len(h))) = << "unrescue_server", "wait_unrescue" >>
                   /\ AllReturned(Len(h))
                   /\ status[server] = "ACTIVE"
              ELSE /\ result = "raised"
                   /\ RunLog(Len(h)) = << >> \/ ~AllReturned(Len(h)))
    /\ [][(Running("rescue") \/ Running("unrescue")) => record' = record]_vars
    /\ [][(pc = "rescue_server" /\ server \in Servers /\ status[server] = "ACTIVE") =>
            (Len(log') = Len(log) + 1 /\ log'[Len(log')].op = "rescue_server")]_vars
    /\ [][(pc = "unrescue_server" /\ server \in Servers /\ status[server] = "RESCUE") =>
            (Len(log') = Len(log) + 1 /\ log'[Len(log')].op = "unrescue_server")]_vars

\* The server was set up, rescued and unrescued.
C15_Witness ==
    /\ h = << "setup", "rescue", "unrescue" >>
    /\ pc = "idle"
    /\ result = "returned"
    /\ status[server] = "ACTIVE"
    /\ AllReturned(2)
    /\ AllReturned(3)

\* The values that are false in Python: None, '', [] and {}.
FalsyValues == { [t |-> "NoneType", len |-> 0, repr |-> "None"],
                 [t |-> "str", len |-> 0, repr |-> ""],
                 [t |-> "list", len |-> 0, repr |-> "[]"],
                 [t |-> "dict", len |-> 0, repr |-> "{}"] }

OptionalArguments ==
    {"key_name", "disk_config", "user_data", "metadata", "networks", "availability_zone"}

\* C17: the create-server request holds, besides name, imageRef and
\* flavorRef, exactly the optional arguments whose value is not None, '',
\* [] or {}, each with the value it was given.
C17_FalsyArgumentsOmitted ==
    fn.done =>
        /\ DOMAIN fn.res \ {"name", "imageRef", "flavorRef"} =
             {k \in OptionalArguments : fn.arg[k] \notin FalsyValues}
        /\ \A k \in OptionalArguments :
             k \in DOMAIN fn.res => fn.res[k] = fn.arg[k]

\* A request was built from arguments of which some are false and some not.
C17_Witness ==
    /\ fn.done
    /\ fn.arg.user_data.repr = ""
    /\ fn.arg.metadata.repr = "{}"
    /\ fn.arg.availability_zone.repr = "None"
    /\ fn.arg.networks.len = 1
    /\ DOMAIN fn.res = {"name", "imageRef", "flavorRef", "key_name", "disk_config", "networks"}

\* The subnets listed for the i-th attached network.
SubnetsOf(i) ==
    LET l == fn.arg.subnets[fn.arg.networks[i].uuid] IN {l[k] : k \in 1..Len(l)}

\* The addresses that compute ports have in the subnet.
ComputeAddressesIn(subnet_id) ==
    UNION { {p.fixed_ips[k].ip_address :
               k \in {x \in 1..Len(p.fixed_ips) : p.fixed_ips[x].subnet_id = subnet_id}} :
            p \in {q \in {fn.arg.ports[n] : n \in 1..Len(fn.arg.ports)} :
                     q.device_owner = "compute:nova"} }

\* C19: get_network_interfaces() returns one descriptor per attached
\* network, in the order of the attach list; the descriptor of a network
\* carries dns, gateway, netmask and address of its IPv4 subnet and dns6,
\* gateway6, netmask6 and address6 of its IPv6 subnet together, in whatever
\* order the subnets are listed (an address is that of a compute port in the
\* subnet, None when there is none).
C19_OneDescriptorPerNetwork ==
    fn.done =>
        /\ Len(fn.res) = Len(fn.arg.networks)
        /\ \A i \in 1..Len(fn.res) :
             /\ fn.res[i].gateway =
                  IF fn.arg.networks[i].uuid = "primary" THEN {"10.0.0.1"} ELSE {"10.1.0.1"}
             /\ \A sid \in SubnetsOf(i) :
                  IF SUBNETS[sid].ip_version = 4
                    THEN /\ fn.res[i].dns = {SUBNETS[sid].dns_nameservers}
                         /\ fn.res[i].gateway = {SUBNETS[sid].gateway_ip}
                         /\ fn.res[i].netmask # {}
                         /\ IF ComputeAddressesIn(sid) = {}
                              THEN fn.res[i].address = {}
                              ELSE /\ fn.res[i].address # {}
                                   /\ fn.res[i].address \subseteq ComputeAddressesIn(sid)
                    ELSE /\ fn.res[i].dns6 = {SUBNETS[sid].dns_nameservers}
                         /\ fn.res[i].gateway6 = {SUBNETS[sid].gateway_ip}
                         /\ fn.res[i].netmask6 = {"120"}
                         /\ IF ComputeAddressesIn(sid) = {}
                              THEN fn.res[i].address6 = {}
                              ELSE /\ fn.res[i].address6 # {}
                                   /\ fn.res[i].address6 \subseteq ComputeAddressesIn(sid)

\* Two networks are attached; the first has its IPv6 subnet listed before
\* its IPv4 subnet and a port with an address in each.
C19_Witness ==
    /\ fn.done
    /\ Len(fn.res) = 2
    /\ fn.arg.subnets["primary"] = << "s6", "s4" >>
    /\ fn.res[1].address = {"10.0.0.5"}
    /\ fn.res[1].address6 = {"::ffff:a00:5"}
    /\ fn.res[1].netmask = {"255.255.255.0"}
    /\ fn.res[2].address = {"10.1.0.5"}

\* The cloud calls of _create_private_network() and _get_networks(), in
\* source order.
NetOrder ==
    << "create_network_resources", "update_subnet_dhcp", "show_subnet",
       "update_subnet_pools", "create_subnet", "list_networks" >>

\* Every call of the sequence but the last one returned.
OnlyLastMayFail(s) == \A i \in 1..(Len(s) - 1) : s[i].ok

\* The number of calls of the sequence that returned.
Returned(s) == Len(SelectSeq(s, LAMBDA e : e.ok))

\* The static-network setup_instance() invoked last, 0 without one.
LastNetSetup ==
    IF \E r \in Runs : h[r] = "net_setup"
      THEN CHOOSE r \in Runs : h[r] = "net_setup" /\ \A q \in Runs : h[q] = "net_setup" => q <= r
      ELSE 0

\* Position k of the log is the latest bundle acquisition that returned.
LatestBundle(k) ==
    /\ log[k].op = "create_network_resources"
    /\ log[k].ok
    /\ \A j \in (k + 1)..Len(log) : ~(log[j].op = "create_network_resources" /\ log[j].ok)

\* C21: _create_private_network() makes its cloud calls in the order: acquire
\* the network/subnet/router bundle (registered at once), disable DHCP and
\* set DNS on the subnet, read the allocation pools, store the shifted pools,
\* create the IPv6 subnet with CIDR ::ffff:a00:0/120, DNS ::ffff:808:808 and
\* ::ffff:808:404 and DHCP disabled on the new network; each call is made
\* only after the one before returned.  From its acquisition on, whatever
\* fails later, the bundle is registered with the credentials until they
\* are released, and releasing them in cleanup() removes it from the cloud.
C21_PrivateNetworkOrderAndTracking ==
    /\ \A r \in Runs :
         h[r] = "net_setup" =>
           /\ IsPrefix(OpsOf(RunLog(r)), NetOrder \o SetupOrder)
           /\ OnlyLastMayFail(RunLog(r))
    /\ LastNetSetup # 0 =>
         LET n == Returned(RunLog(LastNetSetup))
         IN  /\ n >= 2 => ~net.dhcp
             /\ n \in 1..3 => net.pools = net.pools0
             /\ n >= 4 => ShiftedByTwo(net.pools0, net.pools)
             /\ n \in 1..4 => net.subnet6 = {}
             /\ n >= 5 => net.subnet6 =
                            {[network_id |-> "private",
                              cidr |-> "::ffff:a00:0/120",
                              dns_nameservers |-> << "::ffff:808:808", "::ffff:808:404" >>,
                              enable_dhcp |-> FALSE,
                              ip_version |-> 6]}
    /\ \A k \in 1..Len(log) :
         LatestBundle(k) =>
           IF \E j \in (k + 1)..Len(log) : log[j].op = "cleanup_credentials" /\ log[j].ok
             THEN \A b \in net.created : b.id # log[k].id
             ELSE /\ \E b \in net.tracked : b.id = log[k].id
                  /\ \E b \in net.created : b.id = log[k].id

\* The creation of the IPv6 subnet failed, and the cleanup() that followed
\* released the credentials: no bundle is left in the cloud.
C21_Witness ==
    /\ h = << "net_setup", "cleanup" >>
    /\ pc = "idle"
    /\ result = "returned"
    /\ Len(RunLog(1)) = 5
    /\ RunLog(1)[5] = [op |-> "create_subnet", id |-> Nil, ok |-> FALSE, run |-> 1]
    /\ \E k \in 1..Len(log) : log[k].op = "cleanup_credentials" /\ log[k].ok
    /\ net.created = {}
    /\ net.tracked = {}

\* The positions, in listing order, of the ports that are compute-attached
\* and have a fixed IP in the subnet.
MatchingPorts(subnet_id) ==
    {n \in 1..Len(fn.arg.ports) :
        /\ fn.arg.ports[n].device_owner = "compute:nova"
        /\ \E k \in 1..Len(fn.arg.ports[n].fixed_ips) :
             fn.arg.ports[n].fixed_ips[k].subnet_id = subnet_id}

FirstMatchingPort(subnet_id) ==
    fn.arg.ports[CHOOSE n \in MatchingPorts(subnet_id) :
                    \A q \in MatchingPorts(subnet_id) : n <= q]

\* The fixed IPs the port has in the subnet.
FixedIpsIn(port, subnet_id) ==
    {port.fixed_ips[k].ip_address :
        k \in {x \in 1..Len(port.fixed_ips) : port.fixed_ips[x].subnet_id = subnet_id}}

\* The address field of the descriptor that belongs to the subnet.
AddressOf(nic, subnet_id) ==
    IF SUBNETS[subnet_id].ip_version = 6 THEN nic.address6 ELSE nic.address

\* For every subnet of every attached network the address of the descriptor
\* is the fixed IP of the first matching port, None without a matching port.
AddressOfFirstMatchingPort ==
    fn.done =>
        \A i \in 1..Len(fn.res) :
          \A sid \in SubnetsOf(i) :
            IF MatchingPorts(sid) = {}
              THEN AddressOf(fn.res[i], sid) = {}
              ELSE AddressOf(fn.res[i], sid) = FixedIpsIn(FirstMatchingPort(sid), sid)

\* C22: in get_network_interfaces(), for each subnet of a network the first
\* port in listing order that is compute-attached and has a fixed IP in the
\* subnet is the one used: the descriptor's MAC is that port's MAC in upper
\* case and its address is that fixed IP; without such a port the subnet
\* contributes no address, and no MAC either.
C22_FirstMatchingPortGivesMacAndAddress ==
    /\ AddressOfFirstMatchingPort
    /\ fn.done =>
         \A i \in 1..Len(fn.res) :
           /\ \A sid \in SubnetsOf(i) :
                MatchingPorts(sid) # {} =>
                  fn.res[i].mac = {Upper(FirstMatchingPort(sid).mac_address)}
           /\ (\A sid \in SubnetsOf(i) : MatchingPorts(sid) = {}) => fn.res[i].mac = {}

\* The list _get_networks() builds from the listing: the isolated network,
\* then the other networks of the tenant that are not external, in the
\* order of the listing.
StaticList(listing) ==
    LET others == SelectSeq(listing, LAMBDA n : /\ n.tenant_id = "tenant"
                                                /\ ~n.external
                                                /\ n.id # "primary")
    IN  << [uuid |-> "primary"] >> \o [i \in 1..Len(others) |-> [uuid |-> others[i].id]]

\* C23: the networks sent with the create-server request are the static
\* list when the networks field is not empty, and otherwise the one-element
\* list with the id of the tenant's primary network; and the static-network
\* setup_instance() hands the list that _get_networks() returned to the base
\* setup as it is: the same elements in the same order.
C23_AttachList ==
    \A k \in 1..Len(log) :
      (log[k].op = "create_server" /\ log[k].ok) =>
        /\ h[log[k].run] = "setup" =>
             /\ networks = << >>
             /\ cloud.attached[log[k].id] = << [uuid |-> "primary"] >>
        /\ h[log[k].run] = "net_setup" =>
             /\ Len(cloud.attached[log[k].id]) >= 1
             /\ cloud.attached[log[k].id][1] = [uuid |-> "primary"]
             /\ log[k].run = Len(h) =>
                  /\ networks # << >>
                  /\ cloud.attached[log[k].id] = networks
                  /\ networks = StaticList(net.listing.networks)

\* A server was created by the static-network setup_instance() after the
\* cloud had listed the private network before the isolated one.
C23_Witness ==
    /\ h = << "net_setup" >>
    /\ \E k \in 1..Len(log) :
         /\ log[k].op = "create_server"
         /\ log[k].ok
         /\ cloud.attached[log[k].id] = << [uuid |-> "primary"], [uuid |-> "private"] >>
    /\ net.listing.networks[1].id = "private"

\* C24: in every state reached through setup_instance() and cleanup(), with
\* failures at any step, a security group in the record implies a floating
\* IP in the record, a floating IP implies a server, and a server implies a
\* keypair; so the steps that read the id of the server (attach or detach
\* of the security group, association of the floating IP, deletion of the
\* server) never find the server field nil.
C24_DependencyChain ==
    /\ security_group # Nil => floating_ip # Nil
    /\ floating_ip # Nil => server # Nil
    /\ server # Nil => keypair # Nil
    /\ (pc = "cleanup_security_group" /\ security_group # Nil) => server # Nil
    /\ pc = "wait_termination" => server # Nil
    /\ ~nilDeref

\* A setup stopped after the server was created, and the cleanup that
\* followed has deleted that server and waits for its termination.
C24_Witness ==
    /\ h = << "setup", "cleanup" >>
    /\ pc = "wait_termination"
    /\ keypair # Nil
    /\ server # Nil
    /\ floating_ip = Nil
    /\ security_group = Nil
    /\ security_groups_rules = << >>

\* The ids of the rules whose creation returned, in the order of the calls.
RuleIds(s) ==
    LET made == SelectSeq(s, LAMBDA e : e.op = "create_security_group_rule" /\ e.ok)
    IN  [i \in 1..Len(made) |-> made[i].id]

\* The rules cleanup() asked the cloud to delete, in the order of the calls.
DeletedRules(s) ==
    LET gone == SelectSeq(s, LAMBDA e : e.op = "delete_security_group_rule")
    IN  [i \in 1..Len(gone) |-> gone[i].id]

\* The call made last in the sequence is a failed call of the operation.
FailedAt(s, op) == s # << >> /\ s[Len(s)].op = op /\ ~s[Len(s)].ok

\* C25: in the first setup_instance() of a record the rule ids are recorded
\* one by one, as each rule is created: when the creation of the k-th rule
\* (1 <= k <= 5) fails, exactly the ids of the first k-1 rules are recorded,
\* in creation order, and the security-group field is nil; when attaching
\* the group to the server fails, all five ids are recorded and the field
\* is nil.  The cleanup() that follows asks for the deletion of the recorded
\* rules, in order, and of no other rule, has deleted all of them once it
\* is past that step, and makes no detach call.
C25_PartialSecurityGroup ==
    (h # << >> /\ h[1] = "setup") =>
      LET s1 == RunLog(1)
          k  == Len(SelectSeq(s1, LAMBDA e : e.op = "create_security_group_rule"))
      IN  /\ (\A r \in 2..Len(h) : h[r] = "cleanup") =>
                /\ security_groups_rules = RuleIds(s1)
                /\ FailedAt(s1, "create_security_group_rule") =>
                     /\ k \in 1..5
                     /\ Len(security_groups_rules) = k - 1
                     /\ security_group = Nil
                /\ FailedAt(s1, "add_security_group") =>
                     /\ Len(security_groups_rules) = 5
                     /\ security_group = Nil
          /\ (Len(h) >= 2 /\ h[2] = "cleanup"
                /\ (FailedAt(s1, "create_security_group_rule")
                      \/ FailedAt(s1, "add_security_group"))) =>
                LET s2 == RunLog(2)
                IN  /\ IsPrefix(DeletedRules(s2), RuleIds(s1))
                    /\ \A i \in 1..Len(s2) : s2[i].op # "remove_security_group"
                    /\ (\E i \in 1..Len(s2) : s2[i].op # "delete_security_group_rule")
                         => /\ DeletedRules(s2) = RuleIds(s1)
                            /\ \A i \in 1..Len(s2) :
                                 s2[i].op = "delete_security_group_rule" => s2[i].ok
                    /\ (Len(h) = 2 /\ pc = "idle" /\ result = "returned")
                         => /\ DeletedRules(s2) = RuleIds(s1)
                            /\ \A i \in 1..Len(RuleIds(s1)) : RuleIds(s1)[i] \notin cloud.rules

\* The creation of the third rule failed; the cleanup() that followed
\* deleted the two recorded rules and returned.
C25_Witness ==
    /\ h = << "setup", "cleanup" >>
    /\ pc = "idle"
    /\ result = "returned"
    /\ FailedAt(RunLog(1), "create_security_group_rule")
    /\ Len(security_groups_rules) = 2
    /\ security_group = Nil
    /\ Len(DeletedRules(RunLog(2))) = 2
    /\ cloud.rules = {}

====
